---- MODULE Spec2Model ----
(***************************************************************************)
(* Model of public_share_bot.py: the upload session (button_handler,       *)
(* file_handler, process_and_collect_files_job, finish_upload_handler,     *)
(* cancel_command) and the paged retrieval of a share (start,              *)
(* show_shared_files_page, button_callback_handler).                       *)
(*                                                                         *)
(* Updates are handled one at a time (the Application is built without     *)
(* concurrent_updates), so at most one handler is between two of its       *)
(* awaits; the jobs of the job queue run as tasks of their own on the same *)
(* event loop and interleave with the handler at every await.              *)
(***************************************************************************)
EXTENDS Integers, Sequences, FiniteSets, TLC

\* ------------------------------------------------------------------ bounds
MaxItems == 2
MaxShown == 3
MaxPage == 3
MaxGroupItems == 3
Users == {"u1", "u2"}
Uploaders == {"u1"}
Viewers == {"u2"}
Groups == {"g1"}
Tokens == {"t1", "t2"}
ChatTypes == {"private", "group"}
PageCounts == {1, 11}
RequestedPages == (-1)..(MaxPage + 1)

\* --------------------------------------------------------- program constants
FILES_PER_PAGE == 10
DEBOUNCE_DELAY == 2
NoGroup == "none"
NoToken == "none"

VARIABLES
    user_data,     \* application.user_data: user -> dict
    bot_data,      \* application.bot_data: media_group_id -> group_context
    lists,         \* the 'message_ids' list objects of the group contexts (by identity)
    job_queue,     \* scheduled, not yet fired jobs
    running,       \* process_and_collect_files_job callbacks between two awaits
    handler,       \* the update handler that is between two awaits, or idle
    files,         \* table files: share_id -> row
    channel,       \* messages of PRIVATE_CHANNEL_ID, in message_id order
    in_group,      \* members of REQUIRED_GROUP_ID
    next_msg_id,   \* per chat: message_id of the next message
    chat,          \* per chat: the bot's rendered messages still present
    reply,         \* the last update answered, and the answer
    since,         \* per group: time since its last item, capped at DEBOUNCE_DELAY
    arrivals,      \* history: accepted items, in arrival order
    drain_log,     \* history: batches of groups handed to forward_messages, in start
                   \* order; pc "failed" once the call has raised
    buttons,       \* history: per chat, the callback_data of the keyboards sent to it
    delivered,     \* history: the number of copy_messages deliveries
    retracted      \* message ids of PRIVATE_CHANNEL_ID removed by delete_messages

vars == <<user_data, bot_data, lists, job_queue, running, handler, files, channel,
          in_group, next_msg_id, chat, reply, since, arrivals, drain_log, buttons,
          delivered, retracted>>

\* ------------------------------------------------------------ python dicts
EmptyDict == [k \in {} |-> 0]
Has(d, k) == k \in DOMAIN d
Get(d, k, default) == IF k \in DOMAIN d THEN d[k] ELSE default
Put(d, k, v) == [x \in (DOMAIN d) \cup {k} |-> IF x = k THEN v ELSE d[x]]
Del(d, k) == [x \in (DOMAIN d) \ {k} |-> d[x]]

\* ------------------------------------------------------------ sequences
Range(s) == {s[i] : i \in 1..Len(s)}
Min(a, b) == IF a < b THEN a ELSE b
Max(a, b) == IF a > b THEN a ELSE b

\* ------------------------------------------------- str(), ",".join, split, int
Digits == <<"0", "1", "2", "3", "4", "5", "6", "7", "8", "9">>

RECURSIVE str(_)
str(n) == IF n < 10 THEN <<Digits[n + 1]>>
          ELSE str(n \div 10) \o <<Digits[(n % 10) + 1]>>

RECURSIVE join(_)
join(ids) == IF ids = <<>> THEN <<>>
             ELSE IF Len(ids) = 1 THEN str(ids[1])
             ELSE str(ids[1]) \o <<",">> \o join(Tail(ids))

RECURSIVE split(_)
split(s) ==
    IF \A i \in 1..Len(s) : s[i] # "," THEN <<s>>
    ELSE LET i == CHOOSE j \in 1..Len(s) :
                      s[j] = "," /\ \A k \in 1..(j - 1) : s[k] # ","
         IN  <<SubSeq(s, 1, i - 1)>> \o split(SubSeq(s, i + 1, Len(s)))

DigitValue(c) == CHOOSE d \in 0..9 : Digits[d + 1] = c

RECURSIVE int(_)
int(s) == IF Len(s) = 1 THEN DigitValue(s[1])
          ELSE 10 * int(SubSeq(s, 1, Len(s) - 1)) + DigitValue(s[Len(s)])

parse_ids(s) == LET parts == split(s) IN [i \in 1..Len(parts) |-> int(parts[i])]

\* ------------------------------------------------------------ the gate
is_user_in_group_fail_open(u, api_ok) == ~api_ok \/ u \in in_group

\* is_user_in_group: a failed get_chat_member counts as "not a member".
is_user_in_group(u, api_ok) == api_ok /\ u \in in_group

\* context.user_data.clear()
clear(ud) == EmptyDict

\* ------------------------------------------------------------ handler state
Idle == [pc |-> "idle", user |-> "", name |-> NoGroup, obj |-> 0, msg |-> 0,
         cancel |-> FALSE, pre |-> <<>>, popped |-> <<>>, inserted |-> FALSE,
         on |-> "", arg |-> NoToken, share_id |-> NoToken, page |-> 0, shown |-> 0,
         ids |-> <<>>, member |-> FALSE, at |-> 0]

\* the answer to the update of kind on (the handler that took it) from user u; arg
\* is the share id the update names (NoToken when it names none) and page the page
\* it asks for (0 when it names none)
SayFor(u, on, text, arg, page) ==
    reply' = [to |-> u, on |-> on, text |-> text, arg |-> arg, page |-> page]
Say(u, on, text) == SayFor(u, on, text, NoToken, 0)

\* ------------------------------------------------------------ begin upload
\* button_handler, behind require_group_membership
button_handler(u, ct, api_ok) ==
    /\ handler.pc = "idle"
    /\ IF ~is_user_in_group(u, api_ok)
       THEN /\ Say(u, "upload_button", "restricted")
            /\ UNCHANGED user_data
       ELSE IF ct # "private"
       THEN UNCHANGED <<user_data, reply>>
       ELSE /\ user_data' = [user_data EXCEPT ![u] =
                  Put(Put(Put(clear(@), "state", "awaiting_file"),
                          "session_message_ids", <<>>), "session_file_count", 0)]
            /\ Say(u, "upload_button", "send_files")
    /\ UNCHANGED <<bot_data, lists, job_queue, running, handler, files, channel,
                   in_group, next_msg_id, chat, since, arrivals, drain_log, buttons,
                   delivered, retracted>>

\* ------------------------------------------------------------ inbound item
\* a job of the queue; id tells the jobs apart (the message that scheduled it)
NewJob(id, name, when, u, obj, ids) ==
    [id |-> id, name |-> name, remaining |-> when, user |-> u, obj |-> obj, ids |-> ids]

remove_no_jobs(q, name) == q

\* for job in get_jobs_by_name(job_name): job.schedule_removal()
remove_jobs_by_name(q, name) == {j \in q : j.name # name}

\* the removal and the run_once of the media-group branch
schedule_group_job(q, id, name, u, obj) ==
    remove_jobs_by_name(q, name) \cup {NewJob(id, name, DEBOUNCE_DELAY, u, obj, <<>>)}

Arrival(u, m, g) ==
    [user |-> u, msg |-> m, group |-> g, cancelled_at |-> 0,
     late |-> g # NoGroup /\ since[g] >= DEBOUNCE_DELAY
                /\ \E i \in 1..Len(arrivals) : arrivals[i].group = g]

\* file_handler, behind require_group_membership; g is the message's media_group_id;
\* reply_ok: the reply_text of 544 or 549 goes through (when it raises the
\* exception is passed over, and the user gets no answer)
file_handler(u, ct, api_ok, g, reply_ok) ==
    /\ handler.pc = "idle"
    /\ LET m == next_msg_id[u] IN
       /\ next_msg_id' = [next_msg_id EXCEPT ![u] = m + 1]
       /\ IF ~is_user_in_group(u, api_ok)
          THEN /\ Say(u, "file", "restricted")
               /\ UNCHANGED <<bot_data, lists, job_queue, handler, since, arrivals>>
          ELSE IF ct # "private"
          THEN UNCHANGED <<bot_data, lists, job_queue, handler, since, arrivals, reply>>
          ELSE IF Get(user_data[u], "state", "none") # "awaiting_file"
          THEN /\ Say(u, "file", "begin_first")
               /\ UNCHANGED <<bot_data, lists, job_queue, handler, since, arrivals>>
          ELSE IF g # NoGroup
          THEN \* a group_context of bot_data always holds a non-empty list
               LET is_first_in_group == ~Has(bot_data, g)
                   obj == IF is_first_in_group THEN Len(lists) + 1 ELSE bot_data[g]
               IN  /\ bot_data' = Put(bot_data, g, obj)
                   /\ lists' = IF is_first_in_group
                               THEN Append(lists, <<m>>)
                               ELSE [lists EXCEPT ![obj] = Append(@, m)]
                   /\ arrivals' = Append(arrivals, Arrival(u, m, g))
                   /\ since' = [since EXCEPT ![g] = 0]
                   /\ IF is_first_in_group
                      THEN \* awaits reply_text before it touches the job queue
                           /\ handler' = [Idle EXCEPT !.pc = "file_sched", !.user = u,
                                                      !.name = g, !.obj = obj,
                                                      !.msg = m]
                           /\ Say(u, "file", IF reply_ok THEN "album_received"
                                              ELSE "none")
                           /\ UNCHANGED job_queue
                      ELSE /\ job_queue' = schedule_group_job(job_queue, m, g, u, obj)
                           /\ UNCHANGED <<handler, reply>>
          ELSE \* awaits reply_text (549) before it calls run_once (551)
               /\ handler' = [Idle EXCEPT !.pc = "file_sched", !.user = u,
                                          !.name = NoGroup, !.msg = m]
               /\ arrivals' = Append(arrivals, Arrival(u, m, g))
               /\ Say(u, "file", IF reply_ok THEN "file_received" ELSE "none")
               /\ UNCHANGED <<bot_data, lists, job_queue, since>>
    /\ UNCHANGED <<user_data, running, files, channel, in_group, chat, drain_log,
                   buttons, delivered, retracted>>

\* file_handler resumes after its reply (to the first item of a group, or to a
\* single item) and schedules the job: lines 546-547, or 551
file_handler_schedule ==
    /\ handler.pc = "file_sched"
    /\ job_queue' = IF handler.name = NoGroup
                    THEN job_queue \cup {NewJob(handler.msg, NoGroup, 0, handler.user,
                                                0, <<handler.msg>>)}
                    ELSE schedule_group_job(job_queue, handler.msg, handler.name,
                                            handler.user, handler.obj)
    /\ handler' = Idle
    /\ UNCHANGED <<user_data, bot_data, lists, running, files, channel, in_group,
                   next_msg_id, chat, reply, since, arrivals, drain_log, buttons,
                   delivered, retracted>>

\* ------------------------------------------------------------ time
Tick ==
    /\ \A j \in job_queue : j.remaining > 0
    /\ \/ job_queue # {}
       \/ \E g \in Groups : since[g] < DEBOUNCE_DELAY
    /\ job_queue' = {[j EXCEPT !.remaining = @ - 1] : j \in job_queue}
    /\ since' = [g \in Groups |-> Min(since[g] + 1, DEBOUNCE_DELAY)]
    /\ UNCHANGED <<user_data, bot_data, lists, running, handler, files, channel,
                   in_group, next_msg_id, chat, reply, arrivals, drain_log, buttons,
                   delivered, retracted>>

\* ------------------------------------------------------------ the drain job
\* job.data[2]: the list object of the group, or the one-element list of a single item
job_message_ids(j) == IF j.obj = 0 THEN j.ids ELSE lists[j.obj]

\* the job fires: process_and_collect_files_job runs up to its await of
\* forward_messages (515), which is called with the list as it is then
job_fires(j) ==
    /\ j \in job_queue
    /\ j.remaining = 0
    /\ LET d == [id |-> j.id, name |-> j.name, user |-> j.user,
                 message_ids |-> job_message_ids(j), pc |-> "forward",
                 forwarded |-> <<>>]
       IN  /\ running' = running \cup {d}
           /\ drain_log' = IF j.name = NoGroup THEN drain_log
                           ELSE Append(drain_log, d)
    /\ job_queue' = job_queue \ {j}
    /\ UNCHANGED <<user_data, bot_data, lists, handler, files, channel, in_group,
                   next_msg_id, chat, reply, since, arrivals, buttons, delivered,
                   retracted>>

\* forwarded_ids: the ids the channel gives to the forwarded copies
forwarded_ids(n) == [i \in 1..n |-> Len(channel) + i]

collect_uncounted(ud, ids) ==
    LET d1 == IF Has(ud, "session_message_ids") THEN ud
              ELSE Put(ud, "session_message_ids", <<>>)
    IN  Put(d1, "session_message_ids", d1["session_message_ids"] \o ids)

\* lines 517-521: the session of the user gets the forwarded ids
collect(ud, ids) ==
    LET d1 == IF Has(ud, "session_message_ids") THEN ud
              ELSE Put(ud, "session_message_ids", <<>>)
        d2 == IF Has(d1, "session_file_count") THEN d1
              ELSE Put(d1, "session_file_count", 0)
    IN  Put(Put(d2, "session_message_ids", d2["session_message_ids"] \o ids),
            "session_file_count", d2["session_file_count"] + Len(ids))

\* finally: del context.bot_data[media_group_id]
discard_group(bd, name) == IF name # NoGroup /\ Has(bd, name) THEN Del(bd, name) ELSE bd

\* the messages of message_ids at the positions kept, in their order
RECURSIVE forwarded_of(_, _)
forwarded_of(message_ids, kept) ==
    IF message_ids = <<>> THEN <<>>
    ELSE LET n == Len(message_ids)
             front == forwarded_of(SubSeq(message_ids, 1, n - 1), kept)
         IN  IF n \in kept THEN Append(front, message_ids[n]) ELSE front

\* the outcomes of a forward_messages call for n messages that does not raise: the
\* positions of the messages whose copies it returns (a message that cannot be
\* found or forwarded is skipped; line 516 takes the list as it comes)
ForwardOutcomes(n) == SUBSET (1..n)

\* the drain of running that d has become, if it has not ended
successor(d, drains) == {r \in drains : r.id = d.id /\ r.user = d.user}

\* the channel takes the messages of the forward_messages call of d (515); kept
\* are the positions of the messages it takes. The call has not returned yet.
forward_messages(d, kept) ==
    /\ d \in running
    /\ d.pc = "forward"
    /\ kept \in ForwardOutcomes(Len(d.message_ids))
    /\ LET taken == forwarded_of(d.message_ids, kept)
       IN  /\ channel' = channel \o [k \in 1..Len(taken) |->
                             [chat |-> d.user, msg |-> taken[k]]]
           /\ running' = (running \ {d}) \cup
                            {[d EXCEPT !.pc = "return",
                                       !.forwarded = forwarded_ids(Len(taken))]}
    /\ UNCHANGED <<user_data, bot_data, lists, job_queue, handler, files, in_group,
                   next_msg_id, chat, reply, since, arrivals, drain_log, buttons,
                   delivered, retracted>>

\* forward_messages returns: lines 516-522 and the finally clause
process_and_collect_files_job(d) ==
    /\ d \in running
    /\ d.pc = "return"
    /\ user_data' = [user_data EXCEPT ![d.user] = collect(@, d.forwarded)]
    /\ bot_data' = discard_group(bot_data, d.name)
    /\ running' = running \ {d}
    /\ UNCHANGED <<lists, job_queue, handler, files, channel, in_group, next_msg_id,
                   chat, reply, since, arrivals, drain_log, buttons, delivered,
                   retracted>>

\* lines 523-526: the except clause leaves the user's data as it is
drop_batch(ud, message_ids) == ud

\* forward_messages raises, before or after the channel took the messages (a
\* response that is lost or late); the except clause runs up to and including its
\* await of send_message (525). notice_ok: that send_message goes through (when
\* it raises, 526 passes over it and the sender is told nothing). The callback
\* is suspended in that await.
process_and_collect_files_job_fails(d, notice_ok) ==
    /\ d \in running
    /\ d.pc \in {"forward", "return"}
    /\ user_data' = [user_data EXCEPT ![d.user] = drop_batch(@, d.message_ids)]
    /\ Say(d.user, "job", IF notice_ok THEN "may_not_be_saved" ELSE "none")
    /\ running' = (running \ {d}) \cup {[d EXCEPT !.pc = "notice"]}
    /\ drain_log' = [k \in 1..Len(drain_log) |->
                        IF successor(drain_log[k], {d}) # {}
                        THEN [drain_log[k] EXCEPT !.pc = "failed"]
                        ELSE drain_log[k]]
    /\ UNCHANGED <<bot_data, lists, job_queue, handler, files, channel, in_group,
                   next_msg_id, chat, since, arrivals, buttons, delivered,
                   retracted>>

\* the await of 525 is over: the finally clause (527-529) of a callback whose
\* forward_messages raised
process_and_collect_files_job_finally(d) ==
    /\ d \in running
    /\ d.pc = "notice"
    /\ bot_data' = discard_group(bot_data, d.name)
    /\ running' = running \ {d}
    /\ UNCHANGED <<user_data, lists, job_queue, handler, files, channel, in_group,
                   next_msg_id, chat, reply, since, arrivals, drain_log, buttons,
                   delivered, retracted>>

\* ------------------------------------------------------------ finish, cancel
\* finish_upload_handler up to its first await (the "please wait" reply); when
\* that reply raises the handler ends there
finish_upload_handler(u, ct, reply_ok) ==
    /\ handler.pc = "idle"
    /\ IF ct # "private" \/ ~reply_ok
       THEN UNCHANGED <<handler, reply>>
       ELSE /\ handler' = [Idle EXCEPT !.pc = "fin_pop", !.user = u]
            /\ Say(u, "finish", "generating")
    /\ UNCHANGED <<user_data, bot_data, lists, job_queue, running, files, channel,
                   in_group, next_msg_id, chat, since, arrivals, drain_log, buttons,
                   delivered, retracted>>

\* history: the items u has in a group buffer whose timer is outstanding
buffered_with_timer(u, a) ==
    \E j \in job_queue :
        /\ j.name # NoGroup /\ j.user = u /\ a.user = u
        /\ a.msg \in Range(job_message_ids(j))

cancel_keeps_session(ud) == ud

\* line 509: what cancel_command leaves of the user's data before it calls
\* finish_upload_handler
cancel_clears_session(ud) == clear(ud)

\* cancel_command: clears the user's data, then runs finish_upload_handler up to
\* its first await (when that reply raises the handler ends there)
cancel_command(u, ct, reply_ok) ==
    /\ handler.pc = "idle"
    /\ IF ct # "private"
       THEN /\ Say(u, "cancel", "use_private_chat")
            /\ UNCHANGED <<handler, user_data, arrivals>>
       ELSE /\ user_data' = [user_data EXCEPT ![u] = cancel_clears_session(@)]
            /\ handler' = IF reply_ok
                          THEN [Idle EXCEPT !.pc = "fin_pop", !.user = u,
                                   !.cancel = TRUE,
                                   !.pre = Get(user_data[u], "session_message_ids", <<>>)]
                          ELSE Idle
            /\ arrivals' = [i \in 1..Len(arrivals) |->
                               IF buffered_with_timer(u, arrivals[i])
                               THEN [arrivals[i] EXCEPT !.cancelled_at = Len(channel) + 1]
                               ELSE arrivals[i]]
            /\ Say(u, "cancel", IF reply_ok THEN "generating" ELSE "none")
    /\ UNCHANGED <<bot_data, lists, job_queue, running, files, channel, in_group,
                   next_msg_id, chat, since, drain_log, buttons, delivered, retracted>>

\* the row finish_upload_handler inserts
share_row(u, session_message_ids, total_files) ==
    [message_id |-> join(session_message_ids), uploader_id |-> u,
     file_caption |-> total_files, file_type |-> "collection"]

\* secrets.token_urlsafe(8): a share id in use, or one not in use (which of the
\* unused ones makes no difference to what follows)
token_urlsafe(tbl) ==
    LET unused == Tokens \ DOMAIN tbl
    IN  (DOMAIN tbl) \cup (IF unused = {} THEN {} ELSE {CHOOSE t \in unused : TRUE})

\* lines 468-483: the two pops and, for a non-empty session, the INSERT with a
\* token of secrets.token_urlsafe; the INSERT raises when the database fails or
\* the token is already a share_id. The handler goes on to its next await, whose
\* line handler.at holds: the edit_text of 485 (the link), of 494 (the except
\* clause) or of 498 (a session without refs)
finish_pop(share_id, db_ok) ==
    /\ handler.pc = "fin_pop"
    /\ LET u == handler.user
           session_message_ids == Get(user_data[u], "session_message_ids", <<>>)
           total_files == Get(user_data[u], "session_file_count", 0)
           raised == ~db_ok \/ Has(files, share_id)
       IN  /\ user_data' = [user_data EXCEPT ![u] =
                               Del(Del(@, "session_message_ids"), "session_file_count")]
           /\ IF session_message_ids # <<>> /\ ~raised
              THEN files' = Put(files, share_id,
                                share_row(u, session_message_ids, total_files))
              ELSE UNCHANGED files
           /\ handler' = [handler EXCEPT !.pc = "fin_end",
                              !.popped = session_message_ids,
                              !.inserted = session_message_ids # <<>> /\ ~raised,
                              !.at = IF session_message_ids = <<>> THEN 498
                                     ELSE IF raised THEN 494 ELSE 485]
    /\ UNCHANGED <<bot_data, lists, job_queue, running, channel, in_group,
                   next_msg_id, chat, reply, since, arrivals, drain_log, buttons,
                   delivered, retracted>>

\* the edit_text the handler is suspended in (485, 494 or 498) is served or
\* raises. After the link of 485 the handler goes on to the log post of 491;
\* when 485 raises, to the edit_text of the except clause (494). The edit_text
\* of 494 and of 498 are outside every try block: when one raises the handler
\* ends there and the lines 499-502 are not run; when it is served the handler
\* is to resume at 499.
finish_end(answer_ok) ==
    /\ handler.pc = "fin_end"
    /\ handler.at \in {485, 494, 498}
    /\ LET u == handler.user
           on == IF handler.cancel THEN "cancel" ELSE "finish"
       IN  IF handler.at = 485
           THEN IF answer_ok
                THEN /\ Say(u, on, "link")
                     /\ handler' = [handler EXCEPT !.at = 491]
                ELSE /\ handler' = [handler EXCEPT !.at = 494]
                     /\ UNCHANGED reply
           ELSE IF answer_ok
                THEN /\ Say(u, on, IF handler.at = 498 THEN "nothing_uploaded"
                                   ELSE "error")
                     /\ handler' = [handler EXCEPT !.at = 499]
                ELSE /\ handler' = Idle
                     /\ UNCHANGED reply
    /\ UNCHANGED <<user_data, bot_data, lists, job_queue, running, files, channel,
                   in_group, next_msg_id, chat, since, arrivals, drain_log, buttons,
                   delivered, retracted>>

\* the send_message of 491 (the log post) returns, and the handler is to resume
\* at 499, or raises, and the except clause goes to the edit_text of 494
finish_log(log_ok) ==
    /\ handler.pc = "fin_end"
    /\ handler.at = 491
    /\ handler' = [handler EXCEPT !.at = IF log_ok THEN 499 ELSE 494]
    /\ UNCHANGED <<user_data, bot_data, lists, job_queue, running, files, channel,
                   in_group, next_msg_id, chat, reply, since, arrivals, drain_log,
                   buttons, delivered, retracted>>

\* lines 499-501: context.user_data.clear() and state = 'default'; the handler
\* goes on to its last reply (502)
finish_clear ==
    /\ handler.pc = "fin_end"
    /\ handler.at = 499
    /\ user_data' = [user_data EXCEPT ![handler.user] =
                         Put(clear(@), "state", "default")]
    /\ handler' = [handler EXCEPT !.at = 502]
    /\ UNCHANGED <<bot_data, lists, job_queue, running, files, channel, in_group,
                   next_msg_id, chat, reply, since, arrivals, drain_log, buttons,
                   delivered, retracted>>

\* the reply of 502 is over (served or raised): the handler ends
finish_done ==
    /\ handler.pc = "fin_end"
    /\ handler.at = 502
    /\ handler' = Idle
    /\ UNCHANGED <<user_data, bot_data, lists, job_queue, running, files, channel,
                   in_group, next_msg_id, chat, reply, since, arrivals, drain_log,
                   buttons, delivered, retracted>>

\* ------------------------------------------------------------ the environment
\* a user joins or leaves REQUIRED_GROUP_ID
membership_changes(u) ==
    /\ in_group' = IF u \in in_group THEN in_group \ {u} ELSE in_group \cup {u}
    /\ UNCHANGED <<user_data, bot_data, lists, job_queue, running, handler, files,
                   channel, next_msg_id, chat, reply, since, arrivals, drain_log,
                   buttons, delivered, retracted>>

\* ------------------------------------------------------------ the pager
Button(action, page, share_id) == [action |-> action, page |-> page, share_id |-> share_id]

\* the callback_data of the keyboard of create_pagination_keyboard ("noop:<share>"
\* splits into the action noop and one more part)
create_pagination_keyboard(current_page, total_pages, callback_prefix, share_id) ==
    LET start0 == Max(1, current_page - 2)
        end_page == Min(total_pages, start0 + 4)
        start_page == Max(1, end_page - 4)
        page_buttons ==
            IF total_pages > 1
            THEN {IF p = current_page THEN Button("noop", 0, share_id)
                                      ELSE Button(callback_prefix, p, share_id) :
                     p \in start_page..end_page}
            ELSE {}
        back == IF current_page > 1
                THEN {Button(callback_prefix, current_page - 1, share_id),
                      Button(callback_prefix, 1, share_id)}
                ELSE {}
        forth == IF current_page < total_pages
                 THEN {Button(callback_prefix, current_page + 1, share_id),
                       Button(callback_prefix, total_pages, share_id)}
                 ELSE {}
    IN  page_buttons \cup back \cup forth

\* lines 209-212 (and 338-340), with the page size as an argument; the code's page
\* size is the constant FILES_PER_PAGE
total_pages_for(total_files, size) == (total_files + size - 1) \div size
page_offset_for(page, size) == (page - 1) * size
page_window_for(all_ids, offset, size) ==
    SubSeq(all_ids, offset + 1, Min(offset + size, Len(all_ids)))

total_pages_of(total_files) == total_pages_for(total_files, FILES_PER_PAGE)
effective_page_no_upper(page, total_pages) == Max(1, page)
effective_page(page, total_pages) == Max(1, Min(page, total_pages))
page_offset(page) == page_offset_for(page, FILES_PER_PAGE)
page_window(all_ids, offset) == page_window_for(all_ids, offset, FILES_PER_PAGE)

\* ------------------------------------------------------------ the table
fetchone_stale(tbl, share_id) ==
    IF Has(tbl, share_id) THEN <<tbl[share_id]>>
    ELSE <<[message_id |-> str(1), uploader_id |-> "u1", file_caption |-> 1,
            file_type |-> "collection"]>>

\* SELECT ... WHERE share_id = %s; fetchone(): the row in a one-element sequence,
\* the empty sequence for None
fetchone(tbl, share_id) == IF Has(tbl, share_id) THEN <<tbl[share_id]>> ELSE <<>>

\* the share ids of the rows of uploader u
own_shares(tbl, u) == {t \in DOMAIN tbl : tbl[t].uploader_id = u}

\* ------------------------------------------------------------ retrieval
\* show_shared_files_page (lines 188-214) for user u, called by the handler of the
\* update of kind on with argument arg, up to the call of copy_messages; ud and
\* msgs are the user's dict and chat as the caller leaves them. With fault "db"
\* the SELECT raises and the except clause of 246-248 answers with the error
\* text. With a row that has files the handler is suspended in copy_messages.
show_shared_files_page(u, on, arg, share_id, page, ud, msgs, fault) ==
    LET return(text) == /\ SayFor(u, on, text, arg, page)
                        /\ handler' = Idle
    IN  /\ user_data' = [user_data EXCEPT ![u] = ud]
        /\ chat' = [chat EXCEPT ![u] = msgs]
        /\ UNCHANGED <<next_msg_id, delivered>>
        /\ IF fault = "db" THEN return("error")
           ELSE IF fetchone(files, share_id) = <<>> THEN return("invalid_or_removed")
           ELSE
           LET result == fetchone(files, share_id)[1]
               total_files == Len(parse_ids(result.message_id))
               total_pages == total_pages_of(total_files)
           IN  IF total_files = 0 THEN return("no_files")
               ELSE /\ handler' = [Idle EXCEPT !.pc = "page_copy", !.user = u,
                                               !.on = on, !.arg = arg,
                                               !.share_id = share_id, !.page = page,
                                               !.shown = effective_page(page, total_pages),
                                               !.member = handler.member]
                    /\ UNCHANGED reply

\* copy_messages returns (lines 214-219): the copies are in the chat,
\* last_page_file_ids is written and the handler sleeps before it sends the panel;
\* with fault "copy" the call raises and the except clause answers with the error
\* text
show_shared_files_page_copy(fault) ==
    /\ handler.pc = "page_copy"
    /\ LET u == handler.user
           share_id == handler.share_id
           pg == handler.shown
           all_ids == parse_ids(fetchone(files, share_id)[1].message_id)
           ids_to_send == page_window(all_ids, page_offset(pg))
           first == next_msg_id[u]
           sent == [i \in 1..Len(ids_to_send) |-> first + i - 1]
           file_msgs == {[id |-> sent[i], kind |-> "file", ref |-> ids_to_send[i],
                          share_id |-> share_id, page |-> pg] : i \in 1..Len(sent)}
       IN  IF fault = "copy"
           THEN /\ SayFor(u, handler.on, "error", handler.arg, handler.page)
                /\ handler' = Idle
                /\ UNCHANGED <<user_data, chat, next_msg_id, delivered>>
           ELSE /\ user_data' = [user_data EXCEPT ![u] =
                                    Put(@, "last_page_file_ids", sent)]
                /\ chat' = [chat EXCEPT ![u] = @ \cup file_msgs]
                /\ next_msg_id' = [next_msg_id EXCEPT ![u] = first + Len(sent)]
                /\ delivered' = delivered + 1
                /\ handler' = [handler EXCEPT !.pc = "page_panel"]
                /\ UNCHANGED reply
    /\ UNCHANGED <<bot_data, lists, job_queue, running, files, channel, in_group,
                   since, arrivals, drain_log, retracted, buttons>>

\* show_shared_files_page resumes after the sleep (lines 219-244): the panel is
\* sent and last_control_panel_id written, and the handler ends; with fault
\* "panel" send_message raises and the except clause answers with the error text
show_shared_files_page_panel(fault) ==
    /\ handler.pc = "page_panel"
    /\ LET u == handler.user
           share_id == handler.share_id
           pg == handler.shown
           total_pages == total_pages_of(
                              Len(parse_ids(fetchone(files, share_id)[1].message_id)))
           panel_id == next_msg_id[u]
           panel == [id |-> panel_id, kind |-> "panel", ref |-> 0,
                     share_id |-> share_id, page |-> pg]
       IN  IF fault = "panel"
           THEN /\ SayFor(u, handler.on, "error", handler.arg, handler.page)
                /\ UNCHANGED <<user_data, chat, next_msg_id, buttons>>
           ELSE /\ user_data' = [user_data EXCEPT ![u] =
                                    Put(@, "last_control_panel_id", panel_id)]
                /\ chat' = [chat EXCEPT ![u] = @ \cup {panel}]
                /\ next_msg_id' = [next_msg_id EXCEPT ![u] = panel_id + 1]
                /\ buttons' = [buttons EXCEPT ![u] = @ \cup
                                  create_pagination_keyboard(pg, total_pages, "spage",
                                                             share_id)]
                /\ SayFor(u, handler.on, "page", handler.arg, handler.page)
    /\ handler' = Idle
    /\ UNCHANGED <<bot_data, lists, job_queue, running, files, channel, in_group,
                   since, arrivals, drain_log, delivered, retracted>>

\* the body of start up to its first await (lines 253-274); arg is
\* context.args[0], NoToken without arguments. With a share id in the private
\* chat the handler is suspended in get_chat_member.
start_body(u, on, ct, arg) ==
    LET ud0 == clear(user_data[u])
        target_share_id == IF arg # NoToken THEN arg
                           ELSE Get(ud0, "pending_share_id", NoToken)
    IN  IF ct # "private" /\ target_share_id # NoToken
        THEN /\ user_data' = [user_data EXCEPT ![u] = ud0]
             /\ SayFor(u, on, "open_private_chat", arg, 0)
             /\ UNCHANGED handler
        ELSE IF target_share_id # NoToken
        THEN /\ user_data' = [user_data EXCEPT ![u] = ud0]
             /\ handler' = [Idle EXCEPT !.pc = "start_gate", !.user = u, !.on = on,
                                        !.arg = arg, !.share_id = target_share_id,
                                        !.page = 1]
             /\ UNCHANGED reply
        ELSE /\ user_data' = [user_data EXCEPT ![u] = Put(ud0, "state", "default")]
             /\ Say(u, on, "welcome")
             /\ UNCHANGED handler

\* /start [share_id]
start(u, ct, arg) ==
    /\ handler.pc = "idle"
    /\ delivered < MaxShown
    /\ start_body(u, "start", ct, arg)
    /\ UNCHANGED <<bot_data, lists, job_queue, running, files, channel, in_group,
                   since, arrivals, drain_log, retracted, chat, next_msg_id,
                   delivered, buttons>>

\* start resumes with the answer of get_chat_member (lines 274-306): for a member
\* it sends the "verified" reply and is suspended in it; for anyone else the share
\* id is kept as pending_share_id and the answer is "access restricted"
start_gate(api_ok) ==
    /\ handler.pc = "start_gate"
    /\ IF is_user_in_group(handler.user, api_ok)
       THEN /\ handler' = [handler EXCEPT !.pc = "start_reply", !.member = TRUE]
            /\ UNCHANGED <<user_data, reply>>
       ELSE /\ user_data' = [user_data EXCEPT ![handler.user] =
                                Put(@, "pending_share_id", handler.share_id)]
            /\ SayFor(handler.user, handler.on, "access_restricted", handler.arg, 0)
            /\ handler' = Idle
    /\ UNCHANGED <<bot_data, lists, job_queue, running, files, channel, in_group,
                   since, arrivals, drain_log, retracted, buttons, chat, next_msg_id,
                   delivered>>

\* the "verified" reply returns (lines 276-278): pending_share_id is popped and
\* the first page asked for; with fault "reply" the reply raises and the handler
\* ends
start_reply(fault) ==
    /\ handler.pc = "start_reply"
    /\ LET u == handler.user
       IN  IF fault = "reply"
           THEN /\ SayFor(u, handler.on, "none", handler.arg, 0)
                /\ handler' = Idle
                /\ UNCHANGED <<user_data, chat, next_msg_id, delivered>>
           ELSE show_shared_files_page(u, handler.on, handler.arg, handler.share_id,
                    1, Del(user_data[u], "pending_share_id"), chat[u], fault)
    /\ UNCHANGED <<bot_data, lists, job_queue, running, files, channel, in_group,
                   since, arrivals, drain_log, retracted, buttons>>

\* text_message_handler; arg is the share id of a link in the text, NoToken for
\* any other text. With a link it runs start (line 564).
text_message_handler(u, ct, arg) ==
    /\ handler.pc = "idle"
    /\ delivered < MaxShown
    /\ IF ct # "private"
       THEN UNCHANGED <<user_data, reply, handler>>
       ELSE IF arg # NoToken
       THEN start_body(u, "text", ct, arg)
       ELSE /\ Say(u, "text", IF Get(user_data[u], "state", "none") = "awaiting_file"
                      THEN "waiting_for_files" ELSE "press_upload")
            /\ UNCHANGED <<user_data, handler>>
    /\ UNCHANGED <<bot_data, lists, job_queue, running, files, channel, in_group,
                   since, arrivals, drain_log, retracted, chat, next_msg_id,
                   delivered, buttons>>

\* /help (lines 315-319): one reply, for anyone
help_command(u) ==
    /\ handler.pc = "idle"
    /\ Say(u, "help", "help")
    /\ UNCHANGED <<user_data, bot_data, lists, job_queue, running, handler, files,
                   channel, in_group, next_msg_id, chat, since, arrivals, drain_log,
                   buttons, delivered, retracted>>

\* delete_messages / delete_message of the previous page: best effort
retract(msgs, ids, ok) == IF ok THEN {m \in msgs : m.id \notin ids} ELSE msgs

\* ------------------------------------------------------------ /myfiles
\* show_my_files_page over the table tbl: the text and the keyboard it renders (for
\* each row of the page an info and a delete button, then the page buttons). With
\* fault "db" the exception is logged and nothing is rendered. The tables of the
\* model hold no more than FILES_PER_PAGE rows, so the rows of the first page are
\* all the rows of u.
show_my_files_page(tbl, u, page, fault) ==
    LET total_files == Cardinality(own_shares(tbl, u))
        total_pages == total_pages_of(total_files)
        pg == effective_page(page, total_pages)
        offset == page_offset(pg)
        files_on_page == IF offset = 0 THEN own_shares(tbl, u) ELSE {}
    IN  IF fault = "db" THEN [text |-> "none", keys |-> {}]
        ELSE IF total_files = 0 THEN [text |-> "no_files_yet", keys |-> {}]
        ELSE [text |-> "my_files",
              keys |-> {Button("info", 0, sid) : sid \in files_on_page}
                       \cup {Button("delete", pg, sid) : sid \in files_on_page}
                       \cup create_pagination_keyboard(pg, total_pages, "page", NoToken)]

\* /myfiles, behind require_group_membership
my_files_command(u, ct, api_ok, fault) ==
    /\ handler.pc = "idle"
    /\ IF ~is_user_in_group(u, api_ok)
       THEN /\ Say(u, "myfiles", "restricted")
            /\ UNCHANGED buttons
       ELSE IF ct # "private"
       THEN /\ Say(u, "myfiles", "use_private_chat")
            /\ UNCHANGED buttons
       ELSE LET r == show_my_files_page(files, u, 1, fault)
            IN  /\ buttons' = [buttons EXCEPT ![u] = @ \cup r.keys]
                /\ Say(u, "myfiles", r.text)
    /\ UNCHANGED <<user_data, bot_data, lists, job_queue, running, handler, files,
                   channel, in_group, next_msg_id, chat, since, arrivals, drain_log,
                   delivered, retracted>>

\* ------------------------------------------------------------ callbacks
may_delete_anyone(uploader_id, user_id) == TRUE

\* line 415: only the uploader of a row may delete it
may_delete(uploader_id, user_id) == uploader_id = user_id

DeleteFaults == {"none", "db", "answer", "list"}
Retractions == {"ok", "cant_be_deleted", "bad_request", "error"}

\* the delete branch of button_callback_handler up to its first await after the
\* SELECT (lines 399-420). fault names what raises: "db" the SELECT or the DELETE,
\* "answer" the query.answer of the branch. For the uploader the row is deleted and
\* the change committed, and the handler is suspended in query.answer (422).
delete_share(u, b, fault) ==
    LET share_id == b.share_id
        result == fetchone(files, share_id)
        return(text) == /\ SayFor(u, "delete", text, share_id, 0)
                        /\ UNCHANGED <<files, handler>>
    IN  IF fault = "db" THEN return("internal_error")
        ELSE IF result = <<>>
        THEN return(IF fault = "answer" THEN "internal_error" ELSE "already_deleted")
        ELSE IF ~may_delete(result[1].uploader_id, u)
        THEN return(IF fault = "answer" THEN "internal_error" ELSE "forbidden")
        ELSE /\ files' = Del(files, share_id)
             /\ handler' = [Idle EXCEPT !.pc = "del_answer", !.user = u,
                                        !.on = "delete", !.arg = share_id,
                                        !.share_id = share_id, !.page = b.page,
                                        !.ids = parse_ids(result[1].message_id)]
             /\ UNCHANGED reply

\* the answer "record deleted" (line 422); when it raises, the except clause of
\* 435-437 answers with the internal-error text and the handler ends
delete_answer(fault) ==
    /\ handler.pc = "del_answer"
    /\ IF fault = "answer"
       THEN /\ SayFor(handler.user, "delete", "internal_error", handler.arg, 0)
            /\ handler' = Idle
       ELSE /\ SayFor(handler.user, "delete", "deleted", handler.arg, 0)
            /\ handler' = [handler EXCEPT !.pc = "del_refresh"]
    /\ UNCHANGED <<user_data, bot_data, lists, job_queue, running, files, channel,
                   in_group, next_msg_id, chat, since, arrivals, drain_log, buttons,
                   delivered, retracted>>

\* the refresh of the list (line 423); fault "list": it raises inside
\* show_my_files_page, which logs it
delete_refresh(fault) ==
    /\ handler.pc = "del_refresh"
    /\ LET r == show_my_files_page(files, handler.user, handler.page,
                                   IF fault = "list" THEN "db" ELSE "none")
       IN  buttons' = [buttons EXCEPT ![handler.user] = @ \cup r.keys]
    /\ handler' = [handler EXCEPT !.pc = "del_retract"]
    /\ UNCHANGED <<user_data, bot_data, lists, job_queue, running, files, channel,
                   in_group, next_msg_id, chat, reply, since, arrivals, drain_log,
                   delivered, retracted>>

\* delete_messages on the channel (lines 425-433). retraction is its outcome:
\* "ok", a BadRequest whose message holds the text of line 430
\* ("cant_be_deleted"), another BadRequest ("bad_request", raised again at 431 to the
\* outer except clause, which answers with the internal-error text) or another
\* exception ("error", logged)
delete_retract(retraction) ==
    /\ handler.pc = "del_retract"
    /\ retracted' = IF retraction = "ok" THEN retracted \cup Range(handler.ids)
                    ELSE retracted
    /\ IF retraction = "bad_request"
       THEN SayFor(handler.user, "delete", "internal_error", handler.arg, 0)
       ELSE UNCHANGED reply
    /\ handler' = Idle
    /\ UNCHANGED <<user_data, bot_data, lists, job_queue, running, files, channel,
                   in_group, next_msg_id, chat, since, arrivals, drain_log, buttons,
                   delivered>>

logged_raises(ok, fault) == IF ok THEN fault ELSE "db"

\* lines 386-387 and 391-392: an exception of the deletion is logged, and the
\* handler goes on as it would have (fault is what the next calls will meet)
logged(ok, fault) == fault

\* the spage branch from line 389: last_control_panel_id is popped; with a panel
\* the handler is suspended in delete_message, without one the page is shown
navigate_panel(u, share_id, page, ud, msgs, fault) ==
    LET last_panel_id == Get(ud, "last_control_panel_id", 0)
    IN  IF last_panel_id # 0
        THEN /\ user_data' = [user_data EXCEPT ![u] = Del(ud, "last_control_panel_id")]
             /\ chat' = [chat EXCEPT ![u] = msgs]
             /\ handler' = [Idle EXCEPT !.pc = "nav_panel", !.user = u,
                                        !.on = "callback", !.arg = share_id,
                                        !.share_id = share_id, !.page = page,
                                        !.ids = <<last_panel_id>>]
             /\ UNCHANGED <<next_msg_id, delivered, reply>>
        ELSE show_shared_files_page(u, "callback", share_id, share_id, page,
                                    Del(ud, "last_control_panel_id"), msgs, fault)

\* the spage branch (lines 383-398): last_page_file_ids is popped; with files the
\* handler is suspended in delete_messages
navigate(u, b, fault) ==
    LET ud == user_data[u]
        last_page_ids == Get(ud, "last_page_file_ids", <<>>)
    IN  IF last_page_ids # <<>>
        THEN /\ user_data' = [user_data EXCEPT ![u] = Del(ud, "last_page_file_ids")]
             /\ handler' = [Idle EXCEPT !.pc = "nav_files", !.user = u,
                                        !.on = "callback", !.arg = b.share_id,
                                        !.share_id = b.share_id, !.page = b.page,
                                        !.ids = last_page_ids]
             /\ UNCHANGED <<chat, next_msg_id, delivered, reply>>
        ELSE navigate_panel(u, b.share_id, b.page, Del(ud, "last_page_file_ids"),
                            chat[u], fault)

\* delete_messages of the files of the previous page returns or raises
navigate_files_deleted(del_files_ok, fault) ==
    /\ handler.pc = "nav_files"
    /\ navigate_panel(handler.user, handler.share_id, handler.page,
                      user_data[handler.user],
                      retract(chat[handler.user], Range(handler.ids), del_files_ok),
                      logged(del_files_ok, fault))
    /\ UNCHANGED <<bot_data, lists, job_queue, running, files, channel, in_group,
                   since, arrivals, drain_log, retracted, buttons>>

\* delete_message of the panel of the previous page returns or raises
navigate_panel_deleted(del_panel_ok, fault) ==
    /\ handler.pc = "nav_panel"
    /\ show_shared_files_page(handler.user, "callback", handler.arg,
                              handler.share_id, handler.page, user_data[handler.user],
                              retract(chat[handler.user], Range(handler.ids),
                                      del_panel_ok),
                              logged(del_panel_ok, fault))
    /\ UNCHANGED <<bot_data, lists, job_queue, running, files, channel, in_group,
                   since, arrivals, drain_log, retracted, buttons>>

\* button_callback_handler for the callback_data b that user u sends (the data of
\* a callback query is what the client sends), up to its first await after a
\* change of state
button_callback_handler(u, b, fault) ==
    /\ handler.pc = "idle"
    /\ b.action \in {"spage", "page", "delete", "info", "noop"}
    /\ b.action = "spage" => delivered < MaxShown
    /\ IF b.action = "spage"
       THEN /\ navigate(u, b, fault)
            /\ UNCHANGED <<files, buttons>>
       ELSE IF b.action = "page"
       THEN LET r == show_my_files_page(files, u, b.page,
                                        IF fault = "list" THEN "db" ELSE "none")
            IN  /\ buttons' = [buttons EXCEPT ![u] = @ \cup r.keys]
                /\ SayFor(u, "page", r.text, NoToken, b.page)
                /\ UNCHANGED <<user_data, chat, next_msg_id, delivered, files, handler>>
       ELSE IF b.action = "delete"
       THEN /\ delete_share(u, b, fault)
            /\ UNCHANGED <<user_data, chat, next_msg_id, delivered, buttons>>
       ELSE IF b.action = "info"
       THEN /\ SayFor(u, "info", "info_link", b.share_id, 0)
            /\ UNCHANGED <<user_data, chat, next_msg_id, delivered, buttons, files,
                           handler>>
       ELSE UNCHANGED <<user_data, chat, next_msg_id, delivered, buttons, reply,
                        files, handler>>
    /\ UNCHANGED <<bot_data, lists, job_queue, running, channel, in_group,
                   since, arrivals, drain_log, retracted>>

\* ------------------------------------------------------------ specification
Init ==
    /\ user_data = [u \in Users |-> EmptyDict]
    /\ bot_data = EmptyDict
    /\ lists = <<>>
    /\ job_queue = {}
    /\ running = {}
    /\ handler = Idle
    /\ files = EmptyDict
    /\ channel = <<>>
    /\ in_group = Users
    /\ next_msg_id = [u \in Users |-> 1]
    /\ chat = [u \in Users |-> {}]
    /\ reply = [to |-> "", on |-> "", text |-> "", arg |-> NoToken, page |-> 0]
    /\ since = [g \in Groups |-> DEBOUNCE_DELAY]
    /\ arrivals = <<>>
    /\ drain_log = <<>>
    /\ buttons = [u \in Users |-> {}]
    /\ delivered = 0
    /\ retracted = {}

Next ==
    \/ \E u \in Uploaders, ct \in ChatTypes, api_ok \in BOOLEAN :
          button_handler(u, ct, api_ok)
    \/ \E u \in Uploaders, ct \in ChatTypes, api_ok \in BOOLEAN,
          g \in Groups \cup {NoGroup} :
          \E reply_ok \in BOOLEAN :
             next_msg_id[u] <= MaxItems /\ file_handler(u, ct, api_ok, g, reply_ok)
    \/ file_handler_schedule
    \/ Tick
    \/ \E j \in job_queue : job_fires(j)
    \/ \E d \in running : \E kept \in ForwardOutcomes(Len(d.message_ids)) :
          forward_messages(d, kept)
    \/ \E d \in running : process_and_collect_files_job(d)
    \/ \E d \in running, notice_ok \in BOOLEAN :
          process_and_collect_files_job_fails(d, notice_ok)
    \/ \E d \in running : process_and_collect_files_job_finally(d)
    \/ \E u \in Uploaders, ct \in ChatTypes, reply_ok \in BOOLEAN :
          finish_upload_handler(u, ct, reply_ok)
    \/ \E u \in Uploaders, ct \in ChatTypes, reply_ok \in BOOLEAN :
          cancel_command(u, ct, reply_ok)
    \/ \E share_id \in token_urlsafe(files), db_ok \in BOOLEAN :
          finish_pop(share_id, db_ok)
    \/ \E answer_ok \in BOOLEAN : finish_end(answer_ok)
    \/ \E log_ok \in BOOLEAN : finish_log(log_ok)
    \/ finish_clear
    \/ finish_done

Spec == Init /\ [][Next]_vars

\* Retrieval: a share of n items of u1 exists (the result of an upload session of
\* n items finished by u1).
ShareOf(n) ==
    /\ user_data = [u \in Users |-> IF u = "u1" THEN [state |-> "default"]
                                              ELSE EmptyDict]
    /\ bot_data = EmptyDict
    /\ lists = <<>>
    /\ job_queue = {}
    /\ running = {}
    /\ handler = Idle
    /\ files = Put(EmptyDict, "t1", share_row("u1", [i \in 1..n |-> i], n))
    /\ channel = [i \in 1..n |-> [chat |-> "u1", msg |-> i]]
    /\ in_group = Users
    /\ next_msg_id = [u \in Users |-> IF u = "u1" THEN n + 1 ELSE 1]
    /\ chat = [u \in Users |-> {}]
    /\ reply = [to |-> "u1", on |-> "finish", text |-> "link", arg |-> NoToken,
                page |-> 0]
    /\ since = [g \in Groups |-> DEBOUNCE_DELAY]
    /\ arrivals = [i \in 1..n |-> [Arrival("u1", i, NoGroup) EXCEPT !.late = FALSE]]
    /\ drain_log = <<>>
    /\ buttons = [u \in Users |-> {}]
    /\ delivered = 0
    /\ retracted = {}

InitView == \E n \in PageCounts : ShareOf(n)

Faults == {"none", "reply", "db", "copy", "panel"}

NextView ==
    \/ \E u \in Viewers, ct \in ChatTypes, arg \in Tokens \cup {NoToken} :
          start(u, ct, arg)
    \/ \E api_ok \in BOOLEAN : start_gate(api_ok)
    \/ \E fault \in {"none", "reply", "db"} : start_reply(fault)
    \/ \E fault \in {"none", "copy"} : show_shared_files_page_copy(fault)
    \/ \E fault \in {"none", "panel"} : show_shared_files_page_panel(fault)
    \/ \E u \in Viewers, ct \in ChatTypes, arg \in Tokens \cup {NoToken} :
          text_message_handler(u, ct, arg)
    \/ \E u \in Viewers : \E b \in buttons[u], fault \in {"none", "db"} :
          button_callback_handler(u, b, fault)
    \/ \E del_files_ok \in BOOLEAN, fault \in {"none", "db"} :
          navigate_files_deleted(del_files_ok, fault)
    \/ \E del_panel_ok \in BOOLEAN, fault \in {"none", "db"} :
          navigate_panel_deleted(del_panel_ok, fault)
    \/ \E u \in Viewers : help_command(u)
    \/ \E u \in Viewers : membership_changes(u)

SpecView == InitView /\ [][NextView]_vars

\* Deletion: the uploader lists and deletes shares while a viewer, in the private
\* chat, retrieves the share and turns its pages.
NextDelete ==
    \/ \E u \in Viewers, arg \in Tokens : start(u, "private", arg)
    \/ \E api_ok \in BOOLEAN : start_gate(api_ok)
    \/ start_reply("none")
    \/ show_shared_files_page_copy("none")
    \/ show_shared_files_page_panel("none")
    \/ \E u \in Users : \E b \in buttons[u], fault \in {"none", "db"} :
          button_callback_handler(u, b, fault)
    \/ \E del_files_ok \in BOOLEAN, fault \in {"none", "db"} :
          navigate_files_deleted(del_files_ok, fault)
    \/ \E del_panel_ok \in BOOLEAN, fault \in {"none", "db"} :
          navigate_panel_deleted(del_panel_ok, fault)
    \/ \E u \in Users, share_id \in Tokens, fault \in DeleteFaults :
          button_callback_handler(u, Button("delete", 1, share_id), fault)
    \/ \E fault \in {"none", "answer"} : delete_answer(fault)
    \/ \E fault \in {"none", "list"} : delete_refresh(fault)
    \/ \E retraction \in Retractions : delete_retract(retraction)
    \/ \E u \in Users, ct \in ChatTypes, api_ok \in BOOLEAN, fault \in {"none", "db"} :
          my_files_command(u, ct, api_ok, fault)

SpecDelete == InitView /\ [][NextDelete]_vars

\* Paging: a share of n items, of which the viewer asks for any page, also for
\* pages that no keyboard offers, while the deletion of the previous page's
\* messages may fail; both users list their own shares and turn the pages of
\* the list.
ItemCounts == {1, FILES_PER_PAGE - 1, FILES_PER_PAGE, FILES_PER_PAGE + 1,
               2 * FILES_PER_PAGE + 1}

InitPage == \E n \in ItemCounts : ShareOf(n)

NextPage ==
    \/ \E u \in Viewers : start(u, "private", "t1")
    \/ start_gate(TRUE)
    \/ start_reply("none")
    \/ show_shared_files_page_copy("none")
    \/ show_shared_files_page_panel("none")
    \/ \E u \in Viewers, r \in RequestedPages :
          button_callback_handler(u, Button("spage", r, "t1"), "none")
    \/ \E del_files_ok \in BOOLEAN : navigate_files_deleted(del_files_ok, "none")
    \/ \E del_panel_ok \in BOOLEAN : navigate_panel_deleted(del_panel_ok, "none")
    \/ \E u \in Users : my_files_command(u, "private", TRUE, "none")
    \/ \E u \in Users : \E b \in buttons[u] :
          b.action \in {"page", "info"} /\ button_callback_handler(u, b, "none")

SpecPage == InitPage /\ [][NextPage]_vars

\* Retrieval during an upload: a user who may retrieve the share of u1 also opens
\* an upload session of their own and sends single items into it.
NextMixed ==
    \/ \E u \in Viewers : button_handler(u, "private", TRUE)
    \/ \E u \in Viewers :
          next_msg_id[u] <= MaxItems
             /\ file_handler(u, "private", TRUE, NoGroup, TRUE)
    \/ file_handler_schedule
    \/ \E j \in job_queue : job_fires(j)
    \/ \E d \in running : \E kept \in ForwardOutcomes(Len(d.message_ids)) :
          forward_messages(d, kept)
    \/ \E d \in running : process_and_collect_files_job(d)
    \/ \E u \in Viewers, arg \in Tokens \cup {NoToken} : start(u, "private", arg)
    \/ \E api_ok \in BOOLEAN : start_gate(api_ok)
    \/ start_reply("none")
    \/ show_shared_files_page_copy("none")
    \/ show_shared_files_page_panel("none")
    \/ \E u \in Viewers, arg \in Tokens \cup {NoToken} :
          text_message_handler(u, "private", arg)
    \/ \E u \in Viewers : help_command(u)

SpecMixed == InitView /\ [][NextMixed]_vars

\* One media group: a user in an upload session sends the items of a group, at any
\* times; time passes, the timers fire and the drains end (forward_messages
\* forwards every message or raises).
NextGroup ==
    \/ \E u \in Uploaders : button_handler(u, "private", TRUE)
    \/ \E u \in Uploaders, g \in Groups :
          next_msg_id[u] <= MaxGroupItems
             /\ file_handler(u, "private", TRUE, g, TRUE)
    \/ file_handler_schedule
    \/ Tick
    \/ \E j \in job_queue : job_fires(j)
    \/ \E d \in running : forward_messages(d, 1..Len(d.message_ids))
    \/ \E d \in running : process_and_collect_files_job(d)
    \/ \E d \in running : process_and_collect_files_job_fails(d, TRUE)
    \/ \E d \in running : process_and_collect_files_job_finally(d)

\* the event loop runs what is ready: a handler resumes after its await, time
\* passes, a job whose delay is over is run, and a forward_messages call ends
SpecGroup ==
    /\ Init /\ [][NextGroup]_vars
    /\ WF_vars(file_handler_schedule)
    /\ WF_vars(Tick)
    /\ WF_vars(\E j \in job_queue : job_fires(j))
    /\ WF_vars(\E d \in running :
                  \/ forward_messages(d, 1..Len(d.message_ids))
                  \/ process_and_collect_files_job_fails(d, TRUE))
    /\ WF_vars(\E d \in running : process_and_collect_files_job(d))
    /\ WF_vars(\E d \in running : process_and_collect_files_job_finally(d))

\* ------------------------------------------------------------ upload claims
session_ids(u) == Get(user_data[u], "session_message_ids", <<>>)
mode(u) == Get(user_data[u], "state", "none")

RECURSIVE concat(_)
concat(batches) == IF batches = <<>> THEN <<>>
                   ELSE Head(batches).message_ids \o concat(Tail(batches))

group_arrivals(g) == SelectSeq(arrivals, LAMBDA a : a.group = g)
group_drains(g) == SelectSeq(drain_log, LAMBDA d : d.name = g)
arrival_msgs(as) == [i \in 1..Len(as) |-> as[i].msg]

\* no handler, timer or drain callback of group g is pending
Quiescent(g) ==
    /\ handler.pc = "idle"
    /\ \A j \in job_queue : j.name # g
    /\ \A d \in running : d.name # g

\* C1: once the items of a group have arrived and its drains have run, the drained
\* batches, concatenated in the order the drains ran, are the items of the group in
\* arrival order (a single drain holds them all; several drains split them).
C1_DebounceBatches ==
    \A g \in Groups :
        Quiescent(g) => concat(group_drains(g)) = arrival_msgs(group_arrivals(g))

\* C2: every inbound item is relayed to the channel and appended to the sender's
\* session by at most one drain: the channel holds no two copies of one item.
C2_NoDuplicateDrain ==
    \A i, k \in 1..Len(channel) : i # k => channel[i] # channel[k]

\* C3: the refs of a session are in the order in which their items arrived (the
\* message ids of one chat grow with arrival).
C3_SessionInArrivalOrder ==
    \A u \in Users :
        \A i, k \in 1..Len(session_ids(u)) :
            i < k => channel[session_ids(u)[i]].msg < channel[session_ids(u)[k]].msg

\* C4: refs are appended to a session only while its mode is collecting, and an
\* item arriving in another mode changes neither the session nor the job queue.
C4_AcceptOnlyWhileCollecting ==
    [][\A u \in Users :
          /\ Len(Get(user_data'[u], "session_message_ids", <<>>)) > Len(session_ids(u))
                => mode(u) = "awaiting_file"
          /\ (next_msg_id'[u] # next_msg_id[u] /\ mode(u) # "awaiting_file")
                => /\ user_data' = user_data
                   /\ job_queue' = job_queue
                   /\ bot_data' = bot_data]_vars

\* C7: when the INSERT of a finish raises, the refs the finish took from the session
\* are still in the session when the finish ends.
C7_FailedFinishKeepsRefs ==
    [][(handler.pc = "fin_end" /\ handler'.pc = "idle"
          /\ ~handler.cancel /\ ~handler.inserted /\ handler.popped # <<>>)
        => Range(handler.popped) \subseteq
              Range(Get(user_data'[handler.user], "session_message_ids", <<>>))]_vars

\* C8 as claimed: the refs in the session before a cancel are carried into the
\* drain the cancel performs through finish_upload_handler.
C8_CancelCarriesRefs ==
    (handler.pc = "fin_end" /\ handler.cancel)
        => Range(handler.pre) \subseteq Range(handler.popped)

\* C8, amended: a cancel discards the refs that were in the session before it; the
\* drain it performs through finish_upload_handler holds none of them, and right
\* after the clear the session holds none of them either.
C8_CancelDiscardsRefs ==
    handler.cancel =>
        /\ Range(handler.pre) \cap Range(handler.popped) = {}
        /\ Range(handler.pre) \cap Range(session_ids(handler.user)) = {}

\* a cancel took a non-empty session and has run its drain
C8_Witness ==
    handler.pc = "fin_end" /\ handler.cancel /\ handler.pre # <<>>

\* C9: an item that was in a group buffer with an outstanding timer when its sender
\* cancelled is not relayed to the channel after the cancel.
C9_CancelDiscardsPendingGroup ==
    \A i \in 1..Len(arrivals) :
        arrivals[i].cancelled_at > 0 =>
            \A k \in arrivals[i].cancelled_at..Len(channel) :
                channel[k] # [chat |-> arrivals[i].user, msg |-> arrivals[i].msg]

\* C10: no step of a cancel (cancel_command and the finish_upload_handler it runs)
\* changes the table of shares.
C10_CancelCreatesNoShare ==
    [][(handler.cancel \/ handler'.cancel) => files' = files]_vars

session_count(u) == Get(user_data[u], "session_file_count", 0)

\* the items of group g all came less than DEBOUNCE_DELAY after the one before
gaps_below_delay(g) ==
    /\ group_arrivals(g) # <<>>
    /\ \A i \in 1..Len(arrivals) : arrivals[i].group = g => ~arrivals[i].late

\* C11: a finish_upload_handler run on a session with refs, whose INSERT goes
\* through, adds exactly one row to the table: its ids read back as the refs of the
\* session in the same order and its uploader is the finishing user; on a session
\* without refs it adds no row; no row that exists is touched; the refs and the
\* count are gone from the session, and when the handler that stored the row ends
\* the session is {state: default}. A group whose items came with gaps below the delay is
\* handed to forward_messages as one batch holding all its items, and the drain
\* that succeeds gives the session the ids the channel gave to the forwarded
\* copies, in their order.
C11_FinishCreatesOneRecord ==
    /\ [](\A g \in Groups :
            (Quiescent(g) /\ gaps_below_delay(g))
                => /\ Len(group_drains(g)) = 1
                   /\ group_drains(g)[1].message_ids = arrival_msgs(group_arrivals(g)))
    /\ [][/\ \A d \in running :
               /\ (d.pc = "forward" /\ successor(d, running') \notin {{}, {d}})
                     => \A r \in successor(d, running') :
                           r.forwarded = [i \in 1..(Len(channel') - Len(channel)) |->
                                             Len(channel) + i]
               /\ (d.pc = "return" /\ successor(d, running') = {})
                     => Get(user_data'[d.user], "session_message_ids", <<>>)
                          = session_ids(d.user) \o d.forwarded
          /\ (handler.pc = "fin_pop" /\ handler'.pc = "fin_end")
                => LET u == handler.user
                       refs == session_ids(u)
                       new == (DOMAIN files') \ (DOMAIN files)
                   IN  /\ \A t \in DOMAIN files : Has(files', t) /\ files'[t] = files[t]
                       /\ IF refs # <<>> /\ handler'.inserted
                          THEN /\ Cardinality(new) = 1
                               /\ \A t \in new :
                                     /\ parse_ids(files'[t].message_id) = refs
                                     /\ files'[t].uploader_id = u
                          ELSE new = {}
                       /\ ~Has(user_data'[u], "session_message_ids")
                       /\ ~Has(user_data'[u], "session_file_count")
          /\ (handler.pc = "fin_end" /\ handler'.pc = "idle" /\ handler.inserted)
                => user_data'[handler.user] = [state |-> "default"]]_vars

\* C12: in every reachable state the count of a user's session is the length of
\* its list of refs (an absent key reads as the empty list, or as 0).
C12_CountIsLength ==
    \A u \in Users : session_count(u) = Len(session_ids(u))

\* a session into which two refs were collected
C12_Witness ==
    \E u \in Users : Has(user_data[u], "session_file_count") /\ session_count(u) >= 2

\* C17: none of the items of a batch whose relay failed is appended to the
\* session (the batch is dropped and its relay is not tried again): no ref of a
\* user's session is the copy of a message that was in a batch of that user
\* whose forward_messages call raised.
C17_FailedRelayDropsBatch ==
    \A k \in 1..Len(drain_log) :
        drain_log[k].pc = "failed" =>
            \A i \in 1..Len(session_ids(drain_log[k].user)) :
                LET ref == session_ids(drain_log[k].user)[i]
                IN  ~ /\ ref \in 1..Len(channel)
                      /\ channel[ref].chat = drain_log[k].user
                      /\ channel[ref].msg \in Range(drain_log[k].message_ids)

fresh_session ==
    [state |-> "awaiting_file", session_message_ids |-> <<>>, session_file_count |-> 0]

begin_notice(u) ==
    [to |-> u, on |-> "upload_button", text |-> "send_files", arg |-> NoToken,
     page |-> 0]

\* C19: a begin (button_handler answering "send files") leaves the user with the
\* mode collecting, no refs and the count 0, and with no buffer of the previous
\* session: no group that holds items of the user is still buffered and no
\* debounce timer of the user is still scheduled. (A begin changes nothing but the
\* user's data and the answer, which is how the formula recognises it.)
C19_BeginResetsSession ==
    [][\A u \in Users :
          (/\ reply' = begin_notice(u)
           /\ job_queue' = job_queue /\ running' = running /\ handler' = handler
           /\ next_msg_id' = next_msg_id /\ since' = since /\ lists' = lists
           /\ files' = files)
          => /\ user_data'[u] = fresh_session
             /\ \A j \in job_queue' : j.user = u => j.name = NoGroup
             /\ \A g \in DOMAIN bot_data' :
                   \A i \in 1..Len(arrivals) :
                       arrivals[i].group = g => arrivals[i].user # u]_vars

\* C20: in every reachable state the job queue holds at most one job for each
\* group id; a job that enters the queue for a group has the delay DEBOUNCE_DELAY
\* and reads the list that ends with the item which scheduled it; and an item
\* accepted for a group is the last element of the list bot_data holds for the
\* group.
C20_OneTimerPerGroup ==
    /\ [](\A g \in Groups : Cardinality({j \in job_queue : j.name = g}) <= 1)
    /\ [][/\ \A j \in job_queue' :
               (j.name # NoGroup /\ j \notin job_queue /\ j.remaining = DEBOUNCE_DELAY)
                   => /\ \A k \in job_queue' : k.name = j.name => k = j
                      /\ lists'[j.obj][Len(lists'[j.obj])] = j.id
          /\ (Len(arrivals') > Len(arrivals)
                 /\ arrivals'[Len(arrivals')].group # NoGroup)
               => LET a == arrivals'[Len(arrivals')]
                      buffer == lists'[bot_data'[a.group]]
                  IN  buffer[Len(buffer)] = a.msg]_vars

\* the timer of a group was replaced when its second item came: the one job of the
\* group is the one the second item scheduled, and reads a list of two items
C20_Witness ==
    \E j \in job_queue :
        /\ j.name = "g1" /\ j.id = 2
        /\ Len(lists[j.obj]) = 2
        /\ Cardinality({k \in job_queue : k.name = "g1"}) = 1

\* C22: a finish creates a record only for a session that a begin opened and that
\* is still collecting (the record then holds what that session collected): the
\* step of a finish that adds a row finds the mode awaiting_file, so a finish with
\* no begin before it, after the last finish, cancel or start, adds none. (The
\* finish that a cancel runs is the matter of C10 and is left out here.)
C22_RecordOnlyOfOpenSession ==
    [][(handler.pc = "fin_pop" /\ ~handler.cancel /\ DOMAIN files' # DOMAIN files)
          => mode(handler.user) = "awaiting_file"]_vars

\* ------------------------------------------------------------ retrieval claims
NoPanel == [id |-> 0, kind |-> "none", ref |-> 0, share_id |-> NoToken, page |-> 0]

\* the panel of the page u has on display: the message last_control_panel_id names
displayed(msgs, ud) ==
    LET id == Get(ud, "last_control_panel_id", 0)
    IN  IF \E m \in msgs : m.id = id /\ m.kind = "panel"
        THEN CHOOSE m \in msgs : m.id = id /\ m.kind = "panel"
        ELSE NoPanel

\* C5: every request that delivers items of a share asked the gate for its user
\* and was passed by it: copy_messages returns only to a handler that holds the
\* "member" answer of get_chat_member of this request.
C5_GateOnEveryRetrieval ==
    [][delivered' > delivered => handler.member]_vars

\* C6: a callback that asks for the page of the share the viewer has on display
\* (the panel that last_control_panel_id named when the callback came, which the
\* handler is about to delete) is a no-op: the handler does not go on to copy the
\* page again.
C6_SamePageIsNoOp ==
    [][(handler.pc = "nav_panel" /\ handler'.pc = "page_copy")
          => ~\E m \in chat[handler.user] :
                 /\ m.id = handler.ids[1] /\ m.kind = "panel"
                 /\ m.share_id = handler'.share_id /\ m.page = handler'.shown]_vars

pending(ud) == Get(ud, "pending_share_id", NoToken)

\* C13: a failed get_chat_member counts as "not a member"; and a /start (or a link
\* sent as text) that names a share, taken in the private chat from a user who is
\* not a member when the gate answers, delivers nothing and leaves the share id
\* as pending_share_id of the user, with the answer "access restricted": only the
\* request of a member goes on to the page, and a start delivers only after the
\* gate passed it. In another chat the update is answered with the pointer to the
\* private chat and nothing is delivered there either.
C13_UnauthorizedRetrievePends ==
    /\ [](\A u \in Users : ~is_user_in_group(u, FALSE))
    /\ [][(handler.pc = "start_gate" /\ handler' # handler
              /\ handler.user \notin in_group)
            => /\ handler' = Idle
               /\ delivered' = delivered /\ chat' = chat
               /\ pending(user_data'[handler.user]) = handler.share_id
               /\ reply' = [to |-> handler.user, on |-> handler.on,
                            text |-> "access_restricted", arg |-> handler.arg,
                            page |-> 0]]_vars
    /\ [][(handler.pc = "start_gate" /\ handler' # handler
              /\ handler.user \in in_group)
            => /\ delivered' = delivered /\ chat' = chat
               /\ \/ /\ handler' = [handler EXCEPT !.pc = "start_reply",
                                                   !.member = TRUE]
                     /\ user_data' = user_data
                  \/ /\ handler' = Idle
                     /\ reply'.text = "access_restricted"
                     /\ pending(user_data'[handler.user]) = handler.share_id]_vars
    /\ [][(handler'.pc = "start_reply" /\ handler.pc # "start_reply")
            => handler.pc = "start_gate" /\ handler.user \in in_group]_vars
    /\ [][(delivered' > delivered /\ handler.on \in {"start", "text"})
            => handler.member]_vars
    /\ [][(handler'.member /\ ~handler.member) => handler'.pc = "start_reply"]_vars
    /\ [][(handler.pc = "idle" /\ reply' # reply
              /\ reply'.on \in {"start", "text"} /\ reply'.arg # NoToken)
            => /\ reply'.text = "open_private_chat"
               /\ delivered' = delivered /\ chat' = chat]_vars

\* a user who is not a member asked for share t1 and was turned away
C13_Witness ==
    /\ reply.on = "start" /\ reply.text = "access_restricted" /\ reply.arg = "t1"
    /\ reply.to \notin in_group
    /\ pending(user_data[reply.to]) = "t1"
    /\ chat[reply.to] = {}
    /\ handler.pc = "idle"

\* ------------------------------------------------------------ deletion claims
\* C14: a delete request for a share whose uploader is another user changes neither
\* the table nor the channel and is answered with the refusal; a delete request for
\* a share id that is not in the table changes nothing either and is answered with
\* "already deleted". (When the SELECT or the answer itself raises, the answer is
\* the internal-error text, and nothing is changed.) Only the request of the
\* uploader gets to the DELETE, and only the messages of a deleted row are
\* retracted from the channel.
C14_NonOwnerDeleteForbidden ==
    /\ [][(handler.pc = "idle" /\ reply'.on = "delete" /\ reply' # reply) =>
            LET u == reply'.to
                share_id == reply'.arg
            IN  /\ handler' = Idle
                /\ files' = files
                /\ retracted' = retracted
                /\ (Has(files, share_id) /\ files[share_id].uploader_id # u)
                      => reply'.text \in {"forbidden", "internal_error"}
                /\ ~Has(files, share_id)
                      => reply'.text \in {"already_deleted", "internal_error"}]_vars
    /\ [][files' # files =>
            /\ handler.pc = "idle" /\ handler'.pc = "del_answer"
            /\ Has(files, handler'.share_id)
            /\ files[handler'.share_id].uploader_id = handler'.user
            /\ files' = Del(files, handler'.share_id)
            /\ handler'.ids = parse_ids(files[handler'.share_id].message_id)
            /\ retracted' = retracted]_vars
    /\ [][retracted' # retracted =>
            /\ handler.pc = "del_retract"
            /\ ~Has(files, handler.share_id)
            /\ retracted' = retracted \cup Range(handler.ids)]_vars

\* the viewer asked to delete the share of the uploader and was refused
C14_Witness ==
    /\ reply.on = "delete" /\ reply.text = "forbidden"
    /\ reply.to = "u2" /\ reply.arg = "t1"
    /\ Has(files, "t1") /\ files["t1"].uploader_id = "u1"
    /\ retracted = {}
    /\ handler.pc = "idle"

\* C15: once the row of a share is gone from the table, a navigation callback on
\* that share delivers nothing: no copy_messages call is made, no file message is
\* added to the chat, and the answer is "invalid or removed" (the error text when
\* the SELECT raises). No message of a share without a row is ever added to a chat.
C15_NavigationAfterDelete ==
    /\ [][(reply'.on = "callback" /\ reply' # reply /\ ~Has(files, reply'.arg))
            => /\ handler' = Idle
               /\ delivered' = delivered
               /\ chat'[reply'.to] \subseteq chat[reply'.to]
               /\ reply'.text \in {"invalid_or_removed", "error"}]_vars
    /\ [][(handler.on = "callback" /\ handler.pc \in {"nav_files", "nav_panel"}
              /\ ~Has(files, handler.share_id))
            => /\ delivered' = delivered
               /\ chat'[handler.user] \subseteq chat[handler.user]
               /\ handler'.pc \notin {"page_copy", "page_panel"}]_vars
    /\ [][\A u \in Users : \A m \in chat'[u] \ chat[u] : Has(files, m.share_id)]_vars

\* the viewer had a page of t1, the uploader deleted t1, the viewer turned the page
C15_Witness ==
    /\ reply.on = "callback" /\ reply.text = "invalid_or_removed"
    /\ reply.to = "u2" /\ reply.arg = "t1"
    /\ ~Has(files, "t1")
    /\ delivered > 0
    /\ handler.pc = "idle"

\* ------------------------------------------------------------ paging claims
\* the least k with k * size >= n
ceil_div(n, size) == CHOOSE k \in 0..n : k * size >= n /\ (k = 0 \/ (k - 1) * size < n)

clamp(r, lo, hi) == IF r < lo THEN lo ELSE IF r > hi THEN hi ELSE r

\* the refs of the file messages of the page on display, in the order sent
shown_refs(msgs, ud) ==
    LET ids == Get(ud, "last_page_file_ids", <<>>)
    IN  [i \in 1..Len(ids) |-> (CHOOSE m \in msgs : m.id = ids[i]).ref]

\* the page sizes and item counts the arithmetic of lines 209-212 is checked for
PageSizes == {1, 2, 3, FILES_PER_PAGE}
ItemTotals == 1..(2 * FILES_PER_PAGE + 1)

\* C16: for every page size S > 0 and every item count N for which a page is
\* computed, the arithmetic of the pagers gives total_pages = max(1, ceil(N / S)),
\* an effective page that is the request clamped into 1..total_pages, the offset
\* (page - 1) * S, and a window of the items offset+1 .. offset+len in their
\* order, where len = min(S, N - offset) is never negative. A list of N = 0 items
\* is answered before any page is computed (no page, no keyboard). Every page
\* the bot shows, and every delete button of /myfiles, carries the values of
\* this arithmetic at the page size FILES_PER_PAGE.
C16_PaginateShownPages ==
    /\ \A S \in PageSizes, N \in ItemTotals, r \in RequestedPages :
          LET total_pages == total_pages_for(N, S)
              page == effective_page(r, total_pages)
              offset == page_offset_for(page, S)
              window == page_window_for([i \in 1..N |-> i], offset, S)
          IN  /\ total_pages = Max(1, ceil_div(N, S))
              /\ page = clamp(r, 1, total_pages)
              /\ page \in 1..total_pages
              /\ offset = (page - 1) * S
              /\ Len(window) = Min(S, N - offset)
              /\ Len(window) >= 0
              /\ window = [i \in 1..Len(window) |-> offset + i]
    /\ [](\A u \in Users, r \in RequestedPages :
            LET N == Cardinality(own_shares(files, u))
                total_pages == total_pages_of(N)
                shown == show_my_files_page(files, u, r, "none")
            IN  IF N = 0
                THEN shown.text = "no_files_yet" /\ shown.keys = {}
                ELSE /\ shown.text = "my_files"
                     /\ total_pages = Max(1, ceil_div(N, FILES_PER_PAGE))
                     /\ \A b \in shown.keys :
                           b.action = "delete" => b.page = clamp(r, 1, total_pages))
    /\ [][(handler.pc = "page_panel" /\ handler'.pc = "idle"
              /\ reply'.text = "page") =>
            LET u == reply'.to
                items == parse_ids(files[reply'.arg].message_id)
                N == Len(items)
                total_pages == total_pages_of(N)
                page == displayed(chat'[u], user_data'[u]).page
                offset == page_offset(page)
                shown == shown_refs(chat'[u], user_data'[u])
            IN  /\ N >= 1
                /\ total_pages = Max(1, ceil_div(N, FILES_PER_PAGE))
                /\ page = clamp(reply'.page, 1, total_pages)
                /\ offset = (page - 1) * FILES_PER_PAGE
                /\ Len(shown) = Min(FILES_PER_PAGE, N - offset)
                /\ Len(shown) >= 0
                /\ shown = [i \in 1..Len(shown) |-> items[offset + i]]]_vars

\* a page beyond the last one was asked for and the last page, the third, is shown
C16_Witness ==
    /\ handler.pc = "idle"
    /\ reply.text = "page" /\ reply.on = "callback"
    /\ displayed(chat[reply.to], user_data[reply.to]).page = 3
    /\ reply.page > 3
    /\ Len(shown_refs(chat[reply.to], user_data[reply.to])) = 1

\* C18: a delete that removes the row of a share is answered as a delete that was
\* done, whatever the retraction of the relayed items in the channel comes to: it
\* never ends with the internal-error answer, and the row is gone after it.
C18_DeleteIsAuthoritative ==
    [][(handler.pc \in {"del_answer", "del_refresh", "del_retract"}
           /\ handler'.pc = "idle")
          => /\ ~Has(files', handler.share_id)
             /\ reply' = [to |-> handler.user, on |-> "delete", text |-> "deleted",
                          arg |-> handler.share_id, page |-> 0]]_vars

\* ------------------------------------------------------------ navigation claims
\* the message ids user_data tracks: the files of the page and its panel
tracked_files(ud) == Range(Get(ud, "last_page_file_ids", <<>>))
tracked_panel(ud) ==
    IF Has(ud, "last_control_panel_id") THEN {ud["last_control_panel_id"]} ELSE {}

\* C21: a callback spage for an existing share, with no fault in the rendering,
\* shows the new page whether or not the deletion of the previous page's files and
\* panel succeeds. The deletion comes before the delivery: the handler takes the
\* handles of the previous page out of user_data and asks for the deletion of the
\* files, then of the panel, and calls copy_messages only then; after each
\* deletion the messages it names are either gone or left as they were, and the
\* handler goes on. The messages of the new page are new messages, and afterwards
\* last_page_file_ids and last_control_panel_id name them and nothing else.
C21_NavigationRetractsFirst ==
    /\ [][(handler.pc = "idle" /\ handler'.on = "callback" /\ handler' # handler) =>
            LET u == handler'.user
                old_files == tracked_files(user_data[u])
                old_panel == tracked_panel(user_data[u])
            IN  /\ delivered' = delivered /\ chat' = chat
                /\ tracked_files(user_data'[u]) = {}
                /\ old_files # {} =>
                      /\ handler'.pc = "nav_files"
                      /\ Range(handler'.ids) = old_files
                      /\ tracked_panel(user_data'[u]) = old_panel
                /\ (old_files = {} /\ old_panel # {}) =>
                      /\ handler'.pc = "nav_panel"
                      /\ Range(handler'.ids) = old_panel
                      /\ tracked_panel(user_data'[u]) = {}
                /\ (old_files = {} /\ old_panel = {}) =>
                      handler'.pc = "page_copy"]_vars
    /\ [][(handler.pc \in {"nav_files", "nav_panel"}) =>
            LET u == handler.user
                old_panel == tracked_panel(user_data[u])
                left == {m \in chat'[u] : m.id \in Range(handler.ids)}
                had == {m \in chat[u] : m.id \in Range(handler.ids)}
            IN  /\ left = {} \/ left = had
                /\ \A id \in Range(handler.ids) : id < next_msg_id[u]
                /\ tracked_files(user_data[u]) = {}
                /\ tracked_files(user_data'[u]) = {}
                /\ tracked_panel(user_data'[u]) = {}
                /\ delivered' = delivered
                /\ chat'[u] \subseteq chat[u]
                /\ IF handler.pc = "nav_files" /\ old_panel # {}
                   THEN /\ handler'.pc = "nav_panel"
                        /\ Range(handler'.ids) = old_panel
                   ELSE /\ old_panel = {}
                        /\ handler'.pc = "page_copy"]_vars
    /\ [][(handler.pc = "page_copy" /\ handler.on = "callback") =>
            LET u == handler.user
                new_files == tracked_files(user_data'[u])
            IN  /\ handler' = [handler EXCEPT !.pc = "page_panel"]
                /\ delivered' = delivered + 1
                /\ tracked_files(user_data[u]) = {} /\ tracked_panel(user_data[u]) = {}
                /\ new_files # {} /\ tracked_panel(user_data'[u]) = {}
                /\ new_files = {m.id : m \in chat'[u] \ chat[u]}
                /\ chat[u] \subseteq chat'[u]
                /\ \A id \in new_files :
                      /\ id >= next_msg_id[u]
                      /\ \E m \in chat'[u] :
                            /\ m.id = id /\ m.kind = "file"
                            /\ m.share_id = handler.share_id
                            /\ m.page = handler.shown]_vars
    /\ [][(handler.pc = "page_panel" /\ handler.on = "callback") =>
            LET u == handler.user
                new_panel == tracked_panel(user_data'[u])
            IN  /\ handler' = Idle
                /\ reply' = [to |-> u, on |-> "callback", text |-> "page",
                             arg |-> handler.share_id, page |-> handler.page]
                /\ tracked_files(user_data'[u]) = tracked_files(user_data[u])
                /\ new_panel = {next_msg_id[u]}
                /\ chat'[u] \ chat[u] =
                      {[id |-> next_msg_id[u], kind |-> "panel", ref |-> 0,
                        share_id |-> handler.share_id, page |-> handler.shown]}
                /\ chat[u] \subseteq chat'[u]]_vars

\* page 1 is on display after a callback, and a file of page 2, which only a
\* callback shows, is still in the chat: its deletion failed and it is not tracked
C21_Witness ==
    /\ handler.pc = "idle"
    /\ reply.on = "callback" /\ reply.text = "page"
    /\ displayed(chat[reply.to], user_data[reply.to]).page = 1
    /\ \E m \in chat[reply.to] :
          /\ m.kind = "file" /\ m.page = 2
          /\ m.id \notin tracked_files(user_data[reply.to])

\* ------------------------------------------------------------ session claims
\* C23: a retrieval request (/start with a share id, or a text that is a share
\* link) of a user whose upload session is collecting leaves the session as it
\* was: state, session_message_ids and session_file_count are unchanged by the
\* handler that takes the request.
C23_RetrievalKeepsUploadSession ==
    [][\A u \in Users :
          (/\ handler.pc = "idle"
           /\ handler'.pc = "start_gate" /\ handler'.user = u
           /\ handler'.share_id # NoToken
           /\ mode(u) = "awaiting_file")
          => /\ Get(user_data'[u], "state", "none") = "awaiting_file"
             /\ Get(user_data'[u], "session_message_ids", <<>>) = session_ids(u)
             /\ Get(user_data'[u], "session_file_count", 0) = session_count(u)]_vars

\* C24: the next /start without a share id of a user who has a pending share id
\* retries it: the answer is one of a retrieval of that share (the page when the
\* user is a member by then), never the welcome of a start that names no share,
\* and when the page is shown the pending share id is cleared.
C24_PendingTokenRetried ==
    [][\A u \in Users :
          (/\ handler.pc = "idle" /\ reply' # reply
           /\ reply'.on = "start" /\ reply'.to = u /\ reply'.arg = NoToken
           /\ pending(user_data[u]) # NoToken)
          => /\ reply'.text # "welcome"
             /\ reply'.text = "page" =>
                   /\ pending(user_data'[u]) = NoToken
                   /\ displayed(chat'[u], user_data'[u]).share_id
                         = pending(user_data[u])
                   /\ displayed(chat'[u], user_data'[u]).page = 1]_vars

\* ------------------------------------------------------------ liveness
\* the item of arrival a was in the batch of a drain that has ended: the batch was
\* forwarded and appended to the session, or the failure was reported
drained(a) ==
    \E k \in 1..Len(drain_log) :
        /\ drain_log[k].user = a.user
        /\ a.msg \in Range(drain_log[k].message_ids)
        /\ successor(drain_log[k], running) = {}

\* C25: the items of a group stop arriving at some point (the run accepts finitely
\* many); from some point on the group has no entry in bot_data and every item
\* that was accepted for it has been in a drain that ended, by the append to the
\* session or by the report of the failure.
C25_GroupEventuallyDrained ==
    <>[](\A g \in Groups :
            /\ ~Has(bot_data, g)
            /\ \A i \in 1..Len(arrivals) :
                  arrivals[i].group = g => drained(arrivals[i]))

====
